---- MODULE Spec2Model ----
(***************************************************************************)
(* Model of the logout service: the handlers of app/main.py, the gate of   *)
(* app/middlewares.py, the orchestrators make_user_authorized /            *)
(* make_user_reset of app/utils/managers.py, the document-store            *)
(* transaction scope of app/utils/mongo.py and the user lookup of          *)
(* app/utils/utils.py.                                                     *)
(*                                                                         *)
(* A request is a coroutine; it can be preempted only at an `await`.       *)
(* Every action below is the code between two awaits.  The relational      *)
(* store is accessed through a per-request ORM session: rows are loaded    *)
(* once by the lookup, and commit() writes only the columns whose value    *)
(* differs from the loaded one.  Document-store writes made through the    *)
(* transaction's session are staged and take effect when the transaction   *)
(* commits; create_index is called without the session and acts on the     *)
(* committed collection at once.  Two open transactions cannot both write  *)
(* one document: the store fails the operation of the later writer.        *)
(*                                                                         *)
(* Spec and SpecFaults are the login and logout requests that passed the   *)
(* gate; SpecGate puts the gate and the router in front of every handler.  *)
(* SpecEach lets every user log in and out again over its own request      *)
(* slots, SpecAtRest starts the requests from each state a user can be     *)
(* left in, SpecTable commits rows into the user_status table under its    *)
(* constraints, and SpecMock runs one login through make_user_authorized   *)
(* and one through the test double of tests/mocks.py from the same state.  *)
(***************************************************************************)
EXTENDS Integers, FiniteSets, Sequences, TLC

\* ---------------------------------------------------------------- bounds
NumUsers == 2
MaxRequests == 3
MaxCookieVal == 2
MaxFaults == 1
MaxInFlight == 2

Users == 1..NumUsers
Reqs == 1..MaxRequests

\* ------------------------------------------------------------- constants
HTTP_200_OK == 200
HTTP_204_NO_CONTENT == 204
HTTP_400_BAD_REQUEST == 400
HTTP_404_NOT_FOUND == 404

\* find_one returned None
NoRow == [missing |-> TRUE]
NoResp == [code |-> 0, detail |-> "", authenticated |-> FALSE]

\* cookies: dict[str, str]; a payload is a set of <<key, value>> pairs
EmptyCookies == {}
CookiePayloads == {EmptyCookies} \cup {{<<"k", v>>} : v \in 1..MaxCookieVal}

TrackingCollections == {"marks", "news", "homeworks", "requests"}
\* the order of the loop in make_user_reset
TrackingOrder == <<"marks", "news", "homeworks", "requests">>

\* no exchange yet
\* request bodies of PATCH /user/{id}/login: an object with the field cookies,
\* or an object without it; NoBody for the requests that send none
NoBody == <<"none", EmptyCookies>>
WrongBody == <<"wrong_body", EmptyCookies>>
Bodies == {<<"cookies", c>> : c \in CookiePayloads} \cup {WrongBody}

\* the stores of the test suite before a test has set them up
NoMock == [pc |-> "none", cookies |-> EmptyCookies, status |-> NoRow,
           docs |-> {}, index |-> FALSE, exc |-> "none"]

NoExchange == [n |-> 0, method |-> "", path |-> <<>>, headers |-> {},
               handler |-> "none", resp |-> NoResp, body |-> NoRow,
               sent |-> NoBody]

\* ----------------------------------------------------------------- state
VARIABLES
    statusRow,      \* user_status table: user id -> row or NoRow
    settingsRow,    \* user_notify_settings table: user id -> row or NoRow
    cookiesColl,    \* users_data.cookies: set of committed documents
    uniqueIndex,    \* unique index on user_telegram_id exists
    tracking,       \* tracking_data.<collection>: set of ids with a document
    req,            \* the requests: slot -> request record
    faults,         \* store failures injected so far
    initial,        \* the rows as they were at the start (never changes)
    lastDone,       \* per user: the last request that ran alone, and the
                    \* user's state when it answered
    http,           \* the last request that arrived at the gate, with the
                    \* response when it was answered at once (by the gate,
                    \* the router or a handler that never awaits)
    statusTable,    \* user_status as the database holds it: the set of
                    \* its rows, with the columns its constraints name
    dbSession,      \* the session that provisions rows, and its last commit
    mock            \* the stores of the test suite, where the test double
                    \* make_user_authorized_mocked runs

vars == <<statusRow, settingsRow, cookiesColl, uniqueIndex, tracking, req,
          faults, initial, lastDone, http, statusTable, dbSession, mock>>

\* ------------------------------------------------------------------ rows
\* a fill that flips marks instead of setting it
fill_Toggles(row) == [marks |-> ~row.marks, news |-> FALSE,
                      homeworks |-> FALSE, requests |-> FALSE]

\* UserNotifySettings.fill: the reset profile, whatever the row held
fill(row) == [marks |-> TRUE, news |-> FALSE, homeworks |-> FALSE,
              requests |-> FALSE]

\* The columns a commit writes: those whose pending value differs from the
\* value the session loaded; the other columns keep what the table holds.
Flush(stored, loaded, pending) ==
    [col \in DOMAIN stored |->
        IF pending[col] # loaded[col] THEN pending[col] ELSE stored[col]]

\* the row of user u in the table: the primary key and the constrained
\* columns
TableRow(id, u, row) ==
    [id |-> id, user_telegram_id |-> u,
     login_attempt_count |-> row.login_attempt_count,
     failed_request_count |-> row.failed_request_count]

\* the table that holds the rows st gives the users
TableOf(st) ==
    {TableRow(u, u, st[u]) : u \in {v \in DOMAIN st : st[v] # NoRow}}

\* a session that has committed nothing
NewSession == [state |-> "active", commits |-> 0, row |-> NoRow,
               error |-> "none"]

\* ------------------------------------------------------------- documents
DocsOf(u) == {d \in cookiesColl : d.user_telegram_id = u}

EmptyTxn == [ins |-> {}, del |-> {}, tdel |-> {}]

\* the state of user u that a client or an operator can observe
UserState(st, se, cc, tr, u) ==
    [status |-> st[u], settings |-> se[u],
     docs |-> {d.cookies : d \in {x \in cc : x.user_telegram_id = u}},
     ndocs |-> Cardinality({x \in cc : x.user_telegram_id = u}),
     tracking |-> {c \in TrackingCollections : u \in tr[c]}]

\* -------------------------------------------------------------- requests
IdleReq == [kind |-> "none", user |-> 0, cookies |-> EmptyCookies,
            pc |-> "idle", user_status |-> NoRow, user_settings |-> NoRow,
            loaded |-> NoRow,   \* the status row as the lookup loaded it
            txn |-> EmptyTxn, transaction |-> "none", session |-> "none",
            exc |-> "none", i |-> 0, sawIndex |-> FALSE,
            resp |-> NoResp, mongoCommitted |-> FALSE,
            docsWritten |-> FALSE, sqlCommitted |-> FALSE,
            faulted |-> FALSE, failedAt |-> "none", alone |-> TRUE,
            before |-> NoRow]   \* the user's state when the request arrived

Started(r) == req[r].pc # "idle"
Done(r) == req[r].pc = "done"
InFlight(r) == Started(r) /\ ~Done(r)

\* requests get the slots in order
NextSlot(r) ==
    /\ ~Started(r)
    /\ \A q \in DOMAIN req : q < r => Started(q)
    /\ Cardinality({q \in DOMAIN req : InFlight(q)}) < MaxInFlight

OthersInFlight(r, u) ==
    {q \in DOMAIN req \ {r} : InFlight(q) /\ req[q].user = u}

\* ------------------------------------------------------------------ Init
\* Rows are provisioned by an external flow; a user may lack either row.
StatusRows == {[agreement_accepted |-> TRUE, authenticated |-> FALSE,
                login_attempt_count |-> 2, failed_request_count |-> 1]}
SettingsRows == {[marks |-> TRUE, news |-> FALSE, homeworks |-> TRUE,
                  requests |-> TRUE]}

\* tracking documents are written by other services; here every user has
\* one in each collection except "requests"
InitTracking == [c \in TrackingCollections |->
                    IF c = "requests" THEN {} ELSE Users]

Init ==
    /\ statusRow \in [Users -> StatusRows \cup {NoRow}]
    /\ settingsRow \in [Users -> SettingsRows \cup {NoRow}]
    /\ statusRow[1] # NoRow /\ settingsRow[1] # NoRow
    /\ cookiesColl = {}
    /\ uniqueIndex = FALSE
    /\ tracking = InitTracking
    /\ req = [r \in Reqs |-> IdleReq]
    /\ faults = 0
    /\ initial = [status |-> statusRow, settings |-> settingsRow]
    /\ lastDone = [u \in Users |-> [kind |-> "none"]]
    /\ http = NoExchange
    /\ statusTable = TableOf(statusRow)
    /\ dbSession = NewSession
    /\ mock = NoMock

\* --------------------------------------------------------------- helpers
\* a request for u arrives: the requests for u in flight are no longer alone
Arrive(r, rec) ==
    [q \in DOMAIN req |->
        IF q = r THEN [rec EXCEPT !.alone = OthersInFlight(r, rec.user) = {}]
        ELSE IF InFlight(q) /\ req[q].user = rec.user
             THEN [req[q] EXCEPT !.alone = FALSE]
             ELSE req[q]]

\* what the history keeps of a request that has just answered
Answered(rec) ==
    IF rec.alone
    THEN [kind |-> rec.kind, code |-> rec.resp.code,
          faulted |-> rec.faulted,
          state |-> UserState(statusRow', settingsRow', cookiesColl',
                              tracking', rec.user)]
    ELSE [kind |-> "none"]

\* record the finished request in lastDone when the step ends it
Record(r) ==
    lastDone' = IF req'[r].pc = "done" /\ req[r].pc # "done"
                THEN [lastDone EXCEPT ![req'[r].user] = Answered(req'[r])]
                ELSE lastDone

Resp(code, detail) == [code |-> code, detail |-> detail, authenticated |-> FALSE]

\* a lookup that checks the settings row first
LookupError_SettingsFirst(user_status, user_settings) ==
    IF user_settings = NoRow
    THEN Resp(HTTP_404_NOT_FOUND, "User doesn't exist in user_settings table")
    ELSE IF user_status = NoRow
    THEN Resp(HTTP_404_NOT_FOUND, "User doesn't exist in user_status table")
    ELSE NoResp

\* get_user_status_and_user_settings_by_id_with_raise: the response it
\* raises, or NoResp when both rows are found
LookupError(user_status, user_settings) ==
    IF user_status = NoRow
    THEN Resp(HTTP_404_NOT_FOUND, "User doesn't exist in user_status table")
    ELSE IF user_settings = NoRow
    THEN Resp(HTTP_404_NOT_FOUND, "User doesn't exist in user_settings table")
    ELSE NoResp

\* ------------------------------------------------------------ the handlers
\* a login that tests the cookies before it looks the user up
LoginCheck_CookiesFirst(user_status, user_settings, cookies) ==
    IF cookies = EmptyCookies
    THEN Resp(HTTP_400_BAD_REQUEST, "Cookies is empty")
    ELSE LookupError(user_status, user_settings)

\* login_user up to its first await: lookup, empty-cookies check, and the
\* construction of the MongoContextManager
LoginCheck(user_status, user_settings, cookies) ==
    IF LookupError(user_status, user_settings) # NoResp
    THEN LookupError(user_status, user_settings)
    ELSE IF cookies = EmptyCookies
    THEN Resp(HTTP_400_BAD_REQUEST, "Cookies is empty")
    ELSE NoResp

LoginStart(r, u, c) ==
    /\ NextSlot(r)
    /\ LET err == LoginCheck(statusRow[u], settingsRow[u], c)
           rec == [IdleReq EXCEPT !.kind = "login", !.user = u, !.cookies = c,
                      !.user_status = statusRow[u],
                      !.loaded = statusRow[u],
                      !.user_settings = settingsRow[u],
                      !.pc = IF err = NoResp THEN "aenter" ELSE "done",
                      !.resp = err,
                      !.before = UserState(statusRow, settingsRow,
                                           cookiesColl, tracking, u)]
       IN req' = Arrive(r, rec)
    /\ UNCHANGED <<statusRow, settingsRow, cookiesColl, uniqueIndex, tracking,
                   faults, initial, statusTable, dbSession, mock>>
    /\ Record(r)

\* logout_user up to its first await
LogoutStart(r, u) ==
    /\ NextSlot(r)
    /\ LET err == LookupError(statusRow[u], settingsRow[u])
           rec == [IdleReq EXCEPT !.kind = "logout", !.user = u,
                      !.user_status = statusRow[u],
                      !.loaded = statusRow[u],
                      !.user_settings = settingsRow[u],
                      !.pc = IF err = NoResp THEN "aenter" ELSE "done",
                      !.resp = err,
                      !.before = UserState(statusRow, settingsRow,
                                           cookiesColl, tracking, u)]
       IN req' = Arrive(r, rec)
    /\ UNCHANGED <<statusRow, settingsRow, cookiesColl, uniqueIndex, tracking,
                   faults, initial, statusTable, dbSession, mock>>
    /\ Record(r)

\* MongoContextManager.__aenter__: start_session, start_transaction
Aenter(r) ==
    /\ req[r].pc = "aenter"
    /\ req' = [req EXCEPT ![r].transaction = "active",
                          ![r].session = "open",
                          ![r].pc = IF req[r].kind = "login" THEN "insert"
                                    ELSE "delete"]
    /\ UNCHANGED <<statusRow, settingsRow, cookiesColl, uniqueIndex, tracking,
                   faults, initial, statusTable, dbSession, lastDone, http,
                   mock>>

\* an index on a key the documents do not have: every document after the
\* first is a duplicate
DuplicateKey_AnyDocument(u) == uniqueIndex /\ cookiesColl # {}

\* a collection whose index rejects nothing
DuplicateKey_Unenforced(u) == FALSE

\* the unique index rejects a document whose user id is in the collection
DuplicateKey(u) == uniqueIndex /\ DocsOf(u) # {}

\* an insert that replaces the cookies of the document the user has
InsertOne_Replaces(r) ==
    /\ req[r].pc = "insert"
    /\ LET u == req[r].user
           doc == [_id |-> r, user_telegram_id |-> u,
                   cookies |-> req[r].cookies]
       IN IF DocsOf(u) # {}
          THEN \E d \in DocsOf(u) :
                 req' = [req EXCEPT
                           ![r].txn.del = @ \cup {d},
                           ![r].txn.ins =
                               @ \cup {[d EXCEPT !.cookies = req[r].cookies]},
                           ![r].sawIndex = uniqueIndex,
                           ![r].pc = "index"]
          ELSE req' = [req EXCEPT ![r].txn.ins = @ \cup {doc},
                                  ![r].sawIndex = uniqueIndex,
                                  ![r].pc = "index"]
    /\ UNCHANGED <<statusRow, settingsRow, cookiesColl, uniqueIndex, tracking,
                   faults, initial, statusTable, dbSession, lastDone, http,
                   mock>>

\* MongoHelper.insert_one inside the transaction
InsertOne(r) ==
    /\ req[r].pc = "insert"
    /\ LET u == req[r].user
           doc == [_id |-> r, user_telegram_id |-> u,
                   cookies |-> req[r].cookies]
       IN IF DuplicateKey(u)
          THEN req' = [req EXCEPT ![r].exc = "DuplicateKeyError",
                                  ![r].pc = "aexit"]
          ELSE req' = [req EXCEPT ![r].txn.ins = @ \cup {doc},
                                  ![r].sawIndex = uniqueIndex,
                                  ![r].pc = "index"]
    /\ UNCHANGED <<statusRow, settingsRow, cookiesColl, uniqueIndex, tracking,
                   faults, initial, statusTable, dbSession, lastDone, http,
                   mock>>

\* a unique index cannot be built over a collection that holds duplicates
IndexBuildFails ==
    \E d1, d2 \in cookiesColl :
        d1 # d2 /\ d1.user_telegram_id = d2.user_telegram_id

\* collection.create_index(..., unique=True): called without the session,
\* so outside the transaction; a no-op when the index exists
CreateIndex(r) ==
    /\ req[r].pc = "index"
    /\ IF ~uniqueIndex /\ IndexBuildFails
       THEN /\ req' = [req EXCEPT ![r].exc = "DuplicateKeyError",
                                  ![r].pc = "aexit"]
            /\ UNCHANGED uniqueIndex
       ELSE /\ req' = [req EXCEPT ![r].pc = "aexit"]
            /\ uniqueIndex' = TRUE
    /\ UNCHANGED <<statusRow, settingsRow, cookiesColl, tracking, faults,
                   initial, statusTable, dbSession, lastDone, http, mock>>

\* two open transactions cannot both write one document: the store fails the
\* operation of the later writer (WriteConflict, an OperationFailure)
WriteConflict(r, d) ==
    \E q \in DOMAIN req \ {r} :
        req[q].transaction = "active" /\ d \in req[q].txn.del

TrackingWriteConflict(r, c) ==
    \E q \in DOMAIN req \ {r} :
        /\ req[q].transaction = "active"
        /\ req[q].user = req[r].user
        /\ c \in req[q].txn.tdel

\* a delete_one whose filter matches nothing
DeleteOne_FindsNothing(r) ==
    /\ req[r].pc = "delete"
    /\ req' = [req EXCEPT ![r].pc = "tdelete", ![r].i = 1]
    /\ UNCHANGED <<statusRow, settingsRow, cookiesColl, uniqueIndex, tracking,
                   faults, initial, statusTable, dbSession, lastDone, http,
                   mock>>

\* a delete_one whose filter names no user: it matches any document
DeleteOne_AnyUser(r) ==
    /\ req[r].pc = "delete"
    /\ \/ /\ cookiesColl = {}
          /\ req' = [req EXCEPT ![r].pc = "tdelete", ![r].i = 1]
       \/ \E d \in cookiesColl :
             req' = [req EXCEPT ![r].txn.del = @ \cup {d},
                                ![r].pc = "tdelete", ![r].i = 1]
    /\ UNCHANGED <<statusRow, settingsRow, cookiesColl, uniqueIndex, tracking,
                   faults, initial, statusTable, dbSession, lastDone, http,
                   mock>>

\* MongoHelper.delete_one on users_data.cookies: stages the deletion of one
\* matching document, if there is one; the store refuses the write when
\* another open transaction has written that document
DeleteOne(r) ==
    /\ req[r].pc = "delete"
    /\ LET u == req[r].user
       IN \/ /\ DocsOf(u) = {}
             /\ req' = [req EXCEPT ![r].pc = "tdelete", ![r].i = 1]
          \/ \E d \in DocsOf(u) :
                IF WriteConflict(r, d)
                THEN req' = [req EXCEPT ![r].exc = "OperationFailure",
                                        ![r].failedAt = "delete",
                                        ![r].pc = "aexit"]
                ELSE req' = [req EXCEPT ![r].txn.del = @ \cup {d},
                                        ![r].pc = "tdelete", ![r].i = 1]
    /\ UNCHANGED <<statusRow, settingsRow, cookiesColl, uniqueIndex, tracking,
                   faults, initial, statusTable, dbSession, lastDone, http,
                   mock>>

\* a delete_one that does not pass the session: it takes effect at once,
\* outside the transaction
TrackingDeleteOne_NoSession(r) ==
    /\ req[r].pc = "tdelete"
    /\ LET u == req[r].user
           c == TrackingOrder[req[r].i]
           last == req[r].i = Len(TrackingOrder)
       IN /\ tracking' = [tracking EXCEPT ![c] = @ \ {u}]
          /\ req' = [req EXCEPT
                       ![r].i = IF last THEN 0 ELSE @ + 1,
                       ![r].pc = IF last THEN "aexit" ELSE "tdelete"]
    /\ UNCHANGED <<statusRow, settingsRow, cookiesColl, uniqueIndex, faults,
                   initial, statusTable, dbSession, lastDone, http, mock>>

\* one turn of the loop over the tracking_data collections
TrackingDeleteOne(r) ==
    /\ req[r].pc = "tdelete"
    /\ LET u == req[r].user
           c == TrackingOrder[req[r].i]
           last == req[r].i = Len(TrackingOrder)
       IN IF u \in tracking[c] /\ TrackingWriteConflict(r, c)
          THEN req' = [req EXCEPT ![r].exc = "OperationFailure",
                                  ![r].failedAt = "tdelete",
                                  ![r].i = 0,
                                  ![r].pc = "aexit"]
          ELSE req' = [req EXCEPT
                    ![r].txn.tdel = IF u \in tracking[c] THEN @ \cup {c} ELSE @,
                    ![r].i = IF last THEN 0 ELSE @ + 1,
                    ![r].pc = IF last THEN "aexit" ELSE "tdelete"]
    /\ UNCHANGED <<statusRow, settingsRow, cookiesColl, uniqueIndex, tracking,
                   faults, initial, statusTable, dbSession, lastDone, http,
                   mock>>

\* a commit that never checks the index
CommitConflict_Never(r) == FALSE

\* the commit of a transaction that adds a document for a user id the
\* unique index already holds cannot succeed
CommitConflict(r) ==
    \E d \in req[r].txn.ins : DuplicateKey(d.user_telegram_id)

\* an exception no handler catches: the framework answers 500
ServerError == Resp(500, "Internal Server Error")

\* the response of login_user to an exception of make_user_authorized:
\* DuplicateKeyError is caught, anything else is a server error
LoginError(exc) ==
    IF exc = "DuplicateKeyError"
    THEN Resp(HTTP_400_BAD_REQUEST, "User already logged in")
    ELSE ServerError

HandlerError(kind, exc) ==
    IF kind = "login" THEN LoginError(exc)
    ELSE ServerError

\* the exception is swallowed and the orchestrator goes on
AexitAbort_Swallows(r) ==
    /\ req[r].pc = "aexit"
    /\ req[r].exc # "none"
    /\ req' = [req EXCEPT ![r].txn = EmptyTxn,
                          ![r].transaction = "aborted",
                          ![r].session = "closed",
                          ![r].pc = "sql"]
    /\ UNCHANGED <<statusRow, settingsRow, cookiesColl, uniqueIndex, tracking,
                   faults, initial, statusTable, dbSession, lastDone, http,
                   mock>>

\* the staged insert is written although the body raised
AexitAbort_KeepsWrites(r) ==
    /\ req[r].pc = "aexit"
    /\ req[r].exc # "none"
    /\ cookiesColl' = cookiesColl \cup req[r].txn.ins
    /\ req' = [req EXCEPT ![r].txn = EmptyTxn,
                          ![r].transaction = "aborted",
                          ![r].session = "closed",
                          ![r].resp = IF req[r].kind = "login"
                                      THEN Resp(HTTP_400_BAD_REQUEST,
                                                "User already logged in")
                                      ELSE Resp(500, "Internal Server Error"),
                          ![r].pc = "done"]
    /\ UNCHANGED <<statusRow, settingsRow, uniqueIndex, tracking, faults,
                   initial, statusTable, dbSession, http, mock>>
    /\ Record(r)

\* MongoContextManager.__aexit__ after the body raised: the transaction is
\* aborted, the session ended, the client closed, the exception re-raised
AexitAbort(r) ==
    /\ req[r].pc = "aexit"
    /\ req[r].exc # "none"
    /\ req' = [req EXCEPT ![r].txn = EmptyTxn,
                          ![r].transaction = "aborted",
                          ![r].session = "closed",
                          ![r].resp = HandlerError(req[r].kind, req[r].exc),
                          ![r].pc = "done"]
    /\ UNCHANGED <<statusRow, settingsRow, cookiesColl, uniqueIndex, tracking,
                   faults, initial, statusTable, dbSession, http, mock>>
    /\ Record(r)

\* MongoContextManager.__aexit__ after the body completed: the transaction
\* commits and its staged writes take effect together
AexitCommit(r) ==
    /\ req[r].pc = "aexit"
    /\ req[r].exc = "none"
    /\ IF CommitConflict(r)
       THEN /\ req' = [req EXCEPT
                        ![r].txn = EmptyTxn,
                        ![r].transaction = "aborted",
                        ![r].exc = "OperationFailure",
                        ![r].resp = HandlerError(req[r].kind,
                                                 "OperationFailure"),
                        ![r].pc = "done"]
            /\ UNCHANGED <<cookiesColl, tracking>>
       ELSE /\ cookiesColl' = (cookiesColl \ req[r].txn.del)
                                 \cup req[r].txn.ins
            /\ tracking' = [c \in TrackingCollections |->
                               IF c \in req[r].txn.tdel
                               THEN tracking[c] \ {req[r].user}
                               ELSE tracking[c]]
            /\ req' = [req EXCEPT ![r].txn = EmptyTxn,
                                  ![r].transaction = "committed",
                                  ![r].session = "closed",
                                  ![r].mongoCommitted = TRUE,
                                  ![r].docsWritten =
                                      req[r].txn # EmptyTxn,
                                  ![r].pc = "sql"]
    /\ UNCHANGED <<statusRow, settingsRow, uniqueIndex, faults, initial,
                   statusTable, dbSession, http, mock>>
    /\ Record(r)

\* ------------------------------------------------- relational transaction
\* a login that also counts the attempt
LoginCommit_CountsAttempt(r) ==
    /\ req[r].pc = "sql"
    /\ req[r].kind = "login"
    /\ LET u == req[r].user
           loaded == req[r].user_status
           pending == [req[r].user_status EXCEPT
                         !.authenticated = TRUE,
                         !.login_attempt_count = @ + 1]
           stored == Flush(statusRow[u], loaded, pending)
       IN /\ statusRow' = [statusRow EXCEPT ![u] = stored]
          /\ req' = [req EXCEPT
                       ![r].user_status = stored,
                       ![r].sqlCommitted = TRUE,
                       ![r].resp = [code |-> HTTP_200_OK, detail |-> "",
                                    authenticated |-> stored.authenticated],
                       ![r].pc = "done"]
    /\ UNCHANGED <<settingsRow, cookiesColl, uniqueIndex, tracking, faults,
                   initial, statusTable, dbSession, http, mock>>
    /\ Record(r)

\* a login that also resets the notification preferences, as the logout does
LoginCommit_ResetsProfile(r) ==
    /\ req[r].pc = "sql"
    /\ req[r].kind = "login"
    /\ LET u == req[r].user
           loaded == req[r].user_status
           pending == [req[r].user_status EXCEPT !.authenticated = TRUE]
           stored == Flush(statusRow[u], loaded, pending)
       IN /\ statusRow' = [statusRow EXCEPT ![u] = stored]
          /\ settingsRow' = [settingsRow EXCEPT ![u] = fill(settingsRow[u])]
          /\ req' = [req EXCEPT
                       ![r].user_status = stored,
                       ![r].sqlCommitted = TRUE,
                       ![r].resp = [code |-> HTTP_200_OK, detail |-> "",
                                    authenticated |-> stored.authenticated],
                       ![r].pc = "done"]
    /\ UNCHANGED <<cookiesColl, uniqueIndex, tracking, faults,
                   initial, statusTable, dbSession, http, mock>>
    /\ Record(r)

\* make_user_authorized after the document-store scope, and the rest of
\* login_user: authenticated = True, commit, refresh, 200 with the
\* refreshed flag
LoginCommit(r) ==
    /\ req[r].pc = "sql"
    /\ req[r].kind = "login"
    /\ LET u == req[r].user
           loaded == req[r].user_status
           pending == [req[r].user_status EXCEPT !.authenticated = TRUE]
           stored == Flush(statusRow[u], loaded, pending)
       IN /\ statusRow' = [statusRow EXCEPT ![u] = stored]
          /\ req' = [req EXCEPT
                       ![r].user_status = stored,
                       ![r].sqlCommitted = TRUE,
                       ![r].resp = [code |-> HTTP_200_OK, detail |-> "",
                                    authenticated |-> stored.authenticated],
                       ![r].pc = "done"]
    /\ UNCHANGED <<settingsRow, cookiesColl, uniqueIndex, tracking, faults,
                   initial, statusTable, dbSession, http, mock>>
    /\ Record(r)

\* a reset that deletes the preferences row (AbstractBaseModel.delete)
\* instead of filling it
LogoutCommit_DeletesProfile(r) ==
    /\ req[r].pc = "sql"
    /\ req[r].kind = "logout"
    /\ LET u == req[r].user
           loaded == req[r].user_status
           pending == [loaded EXCEPT !.authenticated = FALSE]
       IN /\ statusRow' = [statusRow EXCEPT
                             ![u] = Flush(statusRow[u], loaded, pending)]
          /\ settingsRow' = [settingsRow EXCEPT ![u] = NoRow]
          /\ req' = [req EXCEPT
                       ![r].sqlCommitted = TRUE,
                       ![r].resp = Resp(HTTP_204_NO_CONTENT, ""),
                       ![r].pc = "done"]
    /\ UNCHANGED <<cookiesColl, uniqueIndex, tracking, faults, initial,
                   statusTable, dbSession, http, mock>>
    /\ Record(r)

\* a reset that commits the status row alone and never gets to the profile
LogoutCommit_StatusOnly(r) ==
    /\ req[r].pc = "sql"
    /\ req[r].kind = "logout"
    /\ LET u == req[r].user
           loaded == req[r].user_status
           pending == [loaded EXCEPT !.authenticated = FALSE]
       IN /\ statusRow' = [statusRow EXCEPT
                             ![u] = Flush(statusRow[u], loaded, pending)]
          /\ req' = [req EXCEPT
                       ![r].sqlCommitted = TRUE,
                       ![r].resp = Resp(HTTP_204_NO_CONTENT, ""),
                       ![r].pc = "done"]
    /\ UNCHANGED <<settingsRow, cookiesColl, uniqueIndex, tracking, faults,
                   initial, statusTable, dbSession, http, mock>>
    /\ Record(r)

\* make_user_reset after the document-store scope, and the rest of
\* logout_user: authenticated = False, fill, one commit, 204
LogoutCommit(r) ==
    /\ req[r].pc = "sql"
    /\ req[r].kind = "logout"
    /\ LET u == req[r].user
           loaded == req[r].user_status
           pending == [loaded EXCEPT !.authenticated = FALSE]
       IN /\ statusRow' = [statusRow EXCEPT
                             ![u] = Flush(statusRow[u], loaded, pending)]
          /\ settingsRow' = [settingsRow EXCEPT
                               ![u] = Flush(settingsRow[u],
                                            req[r].user_settings,
                                            fill(req[r].user_settings))]
          /\ req' = [req EXCEPT
                       ![r].sqlCommitted = TRUE,
                       ![r].resp = Resp(HTTP_204_NO_CONTENT, ""),
                       ![r].pc = "done"]
    /\ UNCHANGED <<cookiesColl, uniqueIndex, tracking, faults, initial,
                   statusTable, dbSession, http, mock>>
    /\ Record(r)

\* ---------------------------------------------------------- store failures
\* start_session or start_transaction raises: __aexit__ does not run
AenterFails(r) ==
    /\ faults < MaxFaults
    /\ req[r].pc = "aenter"
    /\ faults' = faults + 1
    /\ req' = [req EXCEPT ![r].faulted = TRUE,
                          ![r].failedAt = req[r].pc,
                          ![r].exc = "OperationFailure",
                          ![r].resp = HandlerError(req[r].kind,
                                                   "OperationFailure"),
                          ![r].pc = "done"]
    /\ UNCHANGED <<statusRow, settingsRow, cookiesColl, uniqueIndex, tracking,
                   initial, statusTable, dbSession, http, mock>>
    /\ Record(r)

\* an operation of the body (insert_one, create_index, delete_one) raises
BodyStepFails(r) ==
    /\ faults < MaxFaults
    /\ req[r].pc \in {"insert", "index", "delete", "tdelete"}
    /\ faults' = faults + 1
    /\ req' = [req EXCEPT ![r].faulted = TRUE,
                          ![r].failedAt = req[r].pc,
                          ![r].exc = "OperationFailure",
                          ![r].i = 0,
                          ![r].pc = "aexit"]
    /\ UNCHANGED <<statusRow, settingsRow, cookiesColl, uniqueIndex, tracking,
                   initial, statusTable, dbSession, lastDone, http, mock>>

\* commit_transaction or abort_transaction raises inside __aexit__: nothing
\* staged takes effect, end_session and close are skipped
AexitFails(r) ==
    /\ faults < MaxFaults
    /\ req[r].pc = "aexit"
    /\ faults' = faults + 1
    /\ req' = [req EXCEPT ![r].faulted = TRUE,
                          ![r].failedAt = req[r].pc,
                          ![r].txn = EmptyTxn,
                          ![r].transaction = "aborted",
                          ![r].exc = "OperationFailure",
                          ![r].resp = HandlerError(req[r].kind,
                                                   "OperationFailure"),
                          ![r].pc = "done"]
    /\ UNCHANGED <<statusRow, settingsRow, cookiesColl, uniqueIndex, tracking,
                   initial, statusTable, dbSession, http, mock>>
    /\ Record(r)

\* db_session.commit() raises: the relational transaction is rolled back
SqlCommitFails(r) ==
    /\ faults < MaxFaults
    /\ req[r].pc = "sql"
    /\ faults' = faults + 1
    /\ req' = [req EXCEPT ![r].faulted = TRUE,
                          ![r].failedAt = req[r].pc,
                          ![r].exc = "SQLAlchemyError",
                          ![r].resp = HandlerError(req[r].kind,
                                                   "SQLAlchemyError"),
                          ![r].pc = "done"]
    /\ UNCHANGED <<statusRow, settingsRow, cookiesColl, uniqueIndex, tracking,
                   initial, statusTable, dbSession, http, mock>>
    /\ Record(r)

\* ------------------------------------------------------------------ Next
\* the steps of a request after its first await
StepOf(r) ==
    \/ Aenter(r)
    \/ InsertOne(r)
    \/ CreateIndex(r)
    \/ DeleteOne(r)
    \/ TrackingDeleteOne(r)
    \/ AexitAbort(r)
    \/ AexitCommit(r)
    \/ LoginCommit(r)
    \/ LogoutCommit(r)

Step == \E r \in Reqs : StepOf(r)

\* the requests that passed the gate, with both stores answering every call
Next ==
    \/ \E r \in Reqs, u \in Users, c \in CookiePayloads :
          LoginStart(r, u, c) /\ UNCHANGED http
    \/ \E r \in Reqs, u \in Users : LogoutStart(r, u) /\ UNCHANGED http
    \/ Step

\* a call to one of the stores fails
Fault ==
    \E r \in Reqs :
        \/ AenterFails(r)
        \/ BodyStepFails(r)
        \/ AexitFails(r)
        \/ SqlCommitFails(r)

NextFaults == Next \/ Fault

Spec == Init /\ [][Next]_vars

\* the same requests over stores that may fail, every user provisioned
InitProvisioned ==
    /\ Init
    /\ \A u \in Users : statusRow[u] # NoRow /\ settingsRow[u] # NoRow

SpecFaults == InitProvisioned /\ [][NextFaults]_vars

\* ------------------------------------------- every user in and out again
\* test_login_user_multiple_users with the logouts the scenario adds: every
\* user is provisioned and logged out, sends a login with cookies and, once
\* it is answered, a logout; a user may repeat the login before logging
\* out, and the users do not wait for each other
EachReqs == 1..(2 * NumUsers)

Sent(u, kind) ==
    {q \in DOMAIN req : req[q].kind = kind /\ req[q].user = u}

InitEach ==
    /\ statusRow \in [Users -> StatusRows]
    /\ settingsRow \in [Users -> SettingsRows]
    /\ cookiesColl = {}
    /\ uniqueIndex = FALSE
    /\ tracking = InitTracking
    /\ req = [r \in EachReqs |-> IdleReq]
    /\ faults = 0
    /\ initial = [status |-> statusRow, settings |-> settingsRow]
    /\ lastDone = [u \in Users |-> [kind |-> "none"]]
    /\ http = NoExchange
    /\ statusTable = TableOf(statusRow)
    /\ dbSession = NewSession
    /\ mock = NoMock

\* a user sends a login with cookies when it has sent no logout and its
\* earlier login, if any, is answered
EachLogin(r, u, c) ==
    /\ c # EmptyCookies
    /\ Sent(u, "logout") = {}
    /\ \A q \in Sent(u, "login") : Done(q)
    /\ LoginStart(r, u, c)
    /\ UNCHANGED http

EachLogout(r, u) ==
    /\ Sent(u, "logout") = {}
    /\ \E q \in Sent(u, "login") : Done(q)
    /\ LogoutStart(r, u)
    /\ UNCHANGED http

NextEach ==
    \/ \E r \in EachReqs, u \in Users, c \in CookiePayloads : EachLogin(r, u, c)
    \/ \E r \in EachReqs, u \in Users : EachLogout(r, u)
    \/ \E r \in EachReqs : StepOf(r)

SpecEach == InitEach /\ [][NextEach]_vars

\* ------------------------------------------- the states requests leave
\* The states a provisioned user can be in when no request for the user is
\* in flight: logged out, logged in, and the two states failed or
\* interleaved requests leave, a session document under authenticated =
\* false (a login whose relational commit failed) and authenticated = true
\* with no document (a logout that overtook a login).
AtRestKinds == {"logged_out", "logged_in", "stale_document",
                "flag_without_document"}

\* a document an earlier login left
EarlierDoc(u) == [_id |-> 0, user_telegram_id |-> u, cookies |-> {<<"k", 1>>}]

AtRest(u, kind, profile, index) ==
    [status |-> [agreement_accepted |-> TRUE,
                 authenticated |->
                     kind \in {"logged_in", "flag_without_document"},
                 login_attempt_count |-> 2, failed_request_count |-> 1],
     settings |-> profile,
     docs |-> IF kind \in {"logged_in", "stale_document"}
              THEN {EarlierDoc(u)} ELSE {},
     index |-> index \/ kind # "logged_out"]

\* user 1 is in any of these states, the other users are logged out
AtRestStart ==
    \E kind \in AtRestKinds,
       profile \in SettingsRows \cup {fill(p) : p \in SettingsRows},
       index \in BOOLEAN :
        LET st == AtRest(1, kind, profile, index)
        IN /\ statusRow = [u \in Users |->
                             IF u = 1 THEN st.status
                             ELSE AtRest(u, "logged_out", profile,
                                         index).status]
           /\ settingsRow = [u \in Users |-> st.settings]
           /\ cookiesColl = st.docs
           /\ uniqueIndex = st.index
    /\ tracking = InitTracking
    /\ req = [r \in Reqs |-> IdleReq]
    /\ faults = 0
    /\ initial = [status |-> statusRow, settings |-> settingsRow]
    /\ lastDone = [u \in Users |-> [kind |-> "none"]]
    /\ http = NoExchange
    /\ statusTable = TableOf(statusRow)
    /\ dbSession = NewSession

InitAtRest == AtRestStart /\ mock = NoMock

SpecAtRest == InitAtRest /\ [][Next]_vars

\* ------------------------------------------------------- the test double
\* tests/mocks.py: the login tests replace make_user_authorized by
\* make_user_authorized_mocked, which works on the relational session of the
\* test and on a mongomock collection. Both are run once, alone, for user 1
\* from the same starting state: the real one on the stores, the double on
\* mock, a copy of them.
MockStart(c) ==
    [pc |-> "start", cookies |-> c, status |-> statusRow[1],
     docs |-> cookiesColl, index |-> uniqueIndex, exc |-> "none"]

InitMock ==
    /\ AtRestStart
    /\ \E c \in CookiePayloads \ {EmptyCookies} : mock = MockStart(c)

\* mongomock insert_one: the unique index, when there is one, rejects a
\* second document of the user
mongomock_insert_one(docs, index, doc) ==
    IF index /\ \E d \in docs : d.user_telegram_id = doc.user_telegram_id
    THEN [docs |-> docs, exc |-> "DuplicateKeyError"]
    ELSE [docs |-> docs \cup {doc}, exc |-> "none"]

\* mongomock create_index(unique=True): refused over duplicates
mongomock_create_index(docs, index) ==
    IF ~index /\ \E d1, d2 \in docs :
                    d1 # d2 /\ d1.user_telegram_id = d2.user_telegram_id
    THEN [index |-> FALSE, exc |-> "DuplicateKeyError"]
    ELSE [index |-> TRUE, exc |-> "none"]

\* make_user_authorized_mocked: authenticated = True, commit, refresh; then
\* insert_one and create_index on the mongomock collection, with no
\* transaction. It has no await: it runs in one step.
make_user_authorized_mocked(m, user_telegram_id, id) ==
    LET pending == [m.status EXCEPT !.authenticated = TRUE]
        stored == Flush(m.status, m.status, pending)
        ins == mongomock_insert_one(m.docs, m.index,
                   [_id |-> id, user_telegram_id |-> user_telegram_id,
                    cookies |-> m.cookies])
        idx == IF ins.exc = "none"
               THEN mongomock_create_index(ins.docs, m.index)
               ELSE [index |-> m.index, exc |-> ins.exc]
    IN [m EXCEPT !.status = stored, !.docs = ins.docs, !.index = idx.index,
                 !.exc = idx.exc, !.pc = "done"]

\* the login through the test double
MockLogin ==
    /\ mock.pc = "start"
    /\ mock' = make_user_authorized_mocked(mock, 1, 1)
    /\ UNCHANGED <<statusRow, settingsRow, cookiesColl, uniqueIndex, tracking,
                   req, faults, initial, lastDone, http, statusTable,
                   dbSession>>

\* the login through make_user_authorized: the one request of the run
RealLogin_Start(r) ==
    /\ \A q \in Reqs : ~Started(q)
    /\ LoginStart(r, 1, mock.cookies)
    /\ UNCHANGED http

\* the steps of a login after its first await
LoginStepOf(r) ==
    \/ Aenter(r)
    \/ InsertOne(r)
    \/ CreateIndex(r)
    \/ AexitAbort(r)
    \/ AexitCommit(r)
    \/ LoginCommit(r)

NextMock ==
    \/ MockLogin
    \/ \E r \in Reqs : RealLogin_Start(r)
    \/ \E r \in Reqs : LoginStepOf(r)

SpecMock == InitMock /\ [][NextMock]_vars

\* ------------------------------------------------------ the status table
\* Rows are provisioned through a session of their own, as the model tests
\* do: db_session.add(UserStatus(...)) and db_session.commit().
MaxCommits == 3
MaxCounter == 2
CounterValues == {-1, 0, MaxCounter}

\* the primary key the table gives a new row
NextId ==
    IF statusTable = {} THEN 1
    ELSE 1 + CHOOSE n \in {t.id : t \in statusTable} :
                \A t \in statusTable : t.id <= n

\* a table without the check constraints
CheckConstraint_Absent(row) == TRUE

\* check_login_attempt_count_non_negative and
\* check_failed_request_count_non_negative
CheckConstraint(row) ==
    row.login_attempt_count >= 0 /\ row.failed_request_count >= 0

\* a column that is indexed but not unique
Unique_NotEnforced(row) == TRUE

\* user_telegram_id = Column(..., unique=True): no other row has the id
Unique(row) ==
    \A t \in statusTable : t.user_telegram_id # row.user_telegram_id

\* the INSERT of the row is accepted by the table
Accepted(row) == CheckConstraint(row) /\ Unique(row)

\* db_session.add(UserStatus(user_telegram_id=u, login_attempt_count=lac,
\* failed_request_count=frc)); db_session.commit(): the flush inserts the
\* row or raises IntegrityError, and a session whose flush has failed
\* raises PendingRollbackError until it is rolled back
AddUserStatus(u, lac, frc) ==
    /\ dbSession.commits < MaxCommits
    /\ LET row == [id |-> NextId, user_telegram_id |-> u,
                   login_attempt_count |-> lac,
                   failed_request_count |-> frc]
           ok == dbSession.state = "active" /\ Accepted(row)
       IN /\ statusTable' = IF ok THEN statusTable \cup {row}
                            ELSE statusTable
          /\ statusRow' =
                IF ok /\ statusRow[u] = NoRow
                THEN [statusRow EXCEPT
                        ![u] = [agreement_accepted |-> FALSE,
                                authenticated |-> FALSE,
                                login_attempt_count |-> lac,
                                failed_request_count |-> frc]]
                ELSE statusRow
          /\ dbSession' =
                [state |-> IF ok THEN "active" ELSE "inactive",
                 commits |-> dbSession.commits + 1,
                 row |-> row,
                 error |-> IF ok THEN "none"
                           ELSE IF dbSession.state = "active"
                                THEN "IntegrityError"
                                ELSE "PendingRollbackError"]
    /\ UNCHANGED <<settingsRow, cookiesColl, uniqueIndex, tracking, req,
                   faults, initial, lastDone, http, mock>>

\* db_session.rollback() after a failed commit
Rollback ==
    /\ dbSession.state = "inactive"
    /\ dbSession' = [dbSession EXCEPT !.state = "active"]
    /\ UNCHANGED <<statusRow, settingsRow, cookiesColl, uniqueIndex, tracking,
                   req, faults, initial, lastDone, http, statusTable, mock>>

NextTable ==
    \/ \E u \in Users, lac \in CounterValues, frc \in CounterValues :
          AddUserStatus(u, lac, frc)
    \/ Rollback

SpecTable == Init /\ [][NextTable]_vars

\* -------------------------------------------------------------- the gate
HTTP_401_UNAUTHORIZED == 401
HTTP_403_FORBIDDEN == 403

LOGIN_LOGOUT_SERVICE_HEADER_NAME == "X-Auth-Token"
LOGIN_LOGOUT_SERVICE_TOKEN == "SecretToken"

\* a path is the sequence of its segments: "/user/1/login" is
\* <<"user", "1", "login">>
ALLOWED_PATH_WITHOUT_AUTH == {<<"docs">>, <<"openapi.json">>, <<"health">>}

Methods == {"GET", "POST", "PATCH"}

\* the decimal text of the ids
IdText == <<"1", "2", "3", "4", "5", "6", "7", "8", "9">>
\* texts that are not a positive integer
InvalidIds == {"0", "abc"}
IdTexts == {IdText[u] : u \in Users} \cup InvalidIds

Paths ==
    ALLOWED_PATH_WITHOUT_AUTH \cup {<<"wrong-url">>}
        \cup {<<"user", t>> : t \in IdTexts}
        \cup {<<"user", t, "login">> : t \in IdTexts}
        \cup {<<"user", t, "logout">> : t \in IdTexts}

\* request.headers: a set of <<name, value>> pairs
Headers ==
    {{}} \cup {{<<LOGIN_LOGOUT_SERVICE_HEADER_NAME, v>>} :
                  v \in {"", "InvalidToken", LOGIN_LOGOUT_SERVICE_TOKEN}}
         \cup {{<<"wrong_header", LOGIN_LOGOUT_SERVICE_TOKEN>>}}

\* headers.get(name, None)
None == [present |-> FALSE, value |-> ""]
headers_get(headers, name) ==
    IF \E h \in headers : h[1] = name
    THEN [present |-> TRUE,
          value |-> (CHOOSE h \in headers : h[1] = name)[2]]
    ELSE None

\* the truth value Python gives the result: None and "" are false
Truthy(token) == token.present /\ token.value # ""

\* the request goes on to the application
CallNext == [code |-> 0, detail |-> "call_next", authenticated |-> FALSE]

\* a gate that compares nothing
dispatch_AnyToken(path, headers) ==
    IF path \in ALLOWED_PATH_WITHOUT_AUTH THEN CallNext
    ELSE IF Truthy(headers_get(headers, LOGIN_LOGOUT_SERVICE_HEADER_NAME))
    THEN CallNext
    ELSE Resp(HTTP_401_UNAUTHORIZED, "Unauthorized")

\* a gate without the allow-list
dispatch_NoAllowList(path, headers) ==
    LET token == headers_get(headers, LOGIN_LOGOUT_SERVICE_HEADER_NAME)
    IN IF Truthy(token)
       THEN IF token.value # LOGIN_LOGOUT_SERVICE_TOKEN
            THEN Resp(HTTP_403_FORBIDDEN, "Forbidden")
            ELSE CallNext
       ELSE Resp(HTTP_401_UNAUTHORIZED, "Unauthorized")

\* AuthValidationMiddleware.dispatch: the response of the gate, or CallNext
dispatch(path, headers) ==
    IF path \in ALLOWED_PATH_WITHOUT_AUTH THEN CallNext
    ELSE LET token == headers_get(headers, LOGIN_LOGOUT_SERVICE_HEADER_NAME)
         IN IF Truthy(token)
            THEN IF token.value # LOGIN_LOGOUT_SERVICE_TOKEN
                 THEN Resp(HTTP_403_FORBIDDEN, "Forbidden")
                 ELSE CallNext
            ELSE Resp(HTTP_401_UNAUTHORIZED, "Unauthorized")

\* ------------------------------------------------------------ the routes
\* PositiveInt = Path(ge=1): the id a text denotes, 0 when it denotes none
PositiveInt(text) ==
    IF \E n \in 1..Len(IdText) : IdText[n] = text
    THEN CHOOSE n \in 1..Len(IdText) : IdText[n] = text
    ELSE 0

\* the route decorators of main.py and the documentation routes FastAPI
\* adds: the handler of a path, its method and the text of its id
RouteOf(path) ==
    IF path = <<"health">>
    THEN [handler |-> "health", method |-> "GET", id |-> ""]
    ELSE IF path \in {<<"docs">>, <<"openapi.json">>}
    THEN [handler |-> "docs", method |-> "GET", id |-> ""]
    ELSE IF Len(path) = 2 /\ path[1] = "user"
    THEN [handler |-> "get_user_status", method |-> "GET", id |-> path[2]]
    ELSE IF Len(path) = 3 /\ path[1] = "user" /\ path[3] = "logout"
    THEN [handler |-> "logout_user", method |-> "POST", id |-> path[2]]
    ELSE IF Len(path) = 3 /\ path[1] = "user" /\ path[3] = "login"
    THEN [handler |-> "login_user", method |-> "PATCH", id |-> path[2]]
    ELSE [handler |-> "none", method |-> "", id |-> ""]

\* routing and path validation: the handler to call with its id, or the
\* response of the framework
Route(method, path) ==
    LET rt == RouteOf(path)
    IN IF rt.handler = "none"
       THEN [handler |-> "none", id |-> 0, resp |-> Resp(404, "Not Found")]
       ELSE IF rt.method # method
       THEN [handler |-> "none", id |-> 0,
             resp |-> Resp(405, "Method Not Allowed")]
       ELSE IF rt.id # "" /\ PositiveInt(rt.id) = 0
       THEN [handler |-> "none", id |-> 0,
             resp |-> Resp(422, "Unprocessable Entity")]
       ELSE [handler |-> rt.handler,
             id |-> IF rt.id = "" THEN 0 ELSE PositiveInt(rt.id),
             resp |-> NoResp]

\* UserLoginBodySchema: the body must have the field cookies
UserLoginBodySchema(b) ==
    IF b[1] = "cookies"
    THEN [valid |-> TRUE, cookies |-> b[2]]
    ELSE [valid |-> FALSE, cookies |-> EmptyCookies]

\* an application that routes before it asks the gate
Pipeline_RoutesFirst(method, path, headers) ==
    LET routed == Route(method, path)
        gate == dispatch(path, headers)
    IN IF routed.handler = "none"
       THEN [stage |-> "app", handler |-> "none", id |-> 0,
             resp |-> routed.resp]
       ELSE IF gate # CallNext
       THEN [stage |-> "gate", handler |-> "none", id |-> 0, resp |-> gate]
       ELSE [stage |-> "app", handler |-> routed.handler, id |-> routed.id,
             resp |-> routed.resp]

\* app.add_middleware(AuthValidationMiddleware): the gate wraps the whole
\* application, so routing and validation run only when it calls call_next
Pipeline(method, path, headers) ==
    LET gate == dispatch(path, headers)
        routed == Route(method, path)
    IN IF gate # CallNext
       THEN [stage |-> "gate", handler |-> "none", id |-> 0, resp |-> gate]
       ELSE [stage |-> "app", handler |-> routed.handler, id |-> routed.id,
             resp |-> routed.resp]

\* requests that arrive at the gate in SpecGate
MaxGateRequests == 2

\* the requests that can arrive now: any method, path and headers, until
\* MaxGateRequests have arrived
Incoming ==
    IF http.n < MaxGateRequests
    THEN Methods \X Paths \X Headers
    ELSE {}

\* the exchange of the n-th request
Exchange(method, path, headers, handler, resp, body) ==
    [n |-> http.n + 1, method |-> method, path |-> path,
     headers |-> headers, handler |-> handler, resp |-> resp, body |-> body,
     sent |-> NoBody]

\* the gate answers 401 or 403: call_next is not called
GateRejects(m, p, h) ==
    /\ Pipeline(m, p, h).stage = "gate"
    /\ http' = Exchange(m, p, h, "none", Pipeline(m, p, h).resp, NoRow)
    /\ UNCHANGED <<statusRow, settingsRow, cookiesColl, uniqueIndex, tracking,
                   req, faults, initial, statusTable, dbSession, lastDone,
                   mock>>

\* no route, a route with another method, or an id that is not a positive
\* integer: the framework answers
RouterRejects(m, p, h) ==
    /\ Pipeline(m, p, h).stage = "app"
    /\ Pipeline(m, p, h).handler = "none"
    /\ http' = Exchange(m, p, h, "none", Pipeline(m, p, h).resp, NoRow)
    /\ UNCHANGED <<statusRow, settingsRow, cookiesColl, uniqueIndex, tracking,
                   req, faults, initial, statusTable, dbSession, lastDone,
                   mock>>

\* health, and the documentation routes
Health(m, p, h) ==
    /\ Pipeline(m, p, h).handler \in {"health", "docs"}
    /\ http' = Exchange(m, p, h, Pipeline(m, p, h).handler,
                        Resp(HTTP_200_OK, ""),
                        IF Pipeline(m, p, h).handler = "health"
                        THEN [status |-> "UP"] ELSE NoRow)
    /\ UNCHANGED <<statusRow, settingsRow, cookiesColl, uniqueIndex, tracking,
                   req, faults, initial, statusTable, dbSession, lastDone,
                   mock>>

\* a schema that takes the flag from the column default
UserStatusSchema_ColumnDefault(u, user) ==
    [user_telegram_id |-> u,
     agreement_accepted |-> user.agreement_accepted,
     authenticated |-> FALSE,
     login_attempt_count |-> user.login_attempt_count,
     failed_request_count |-> user.failed_request_count]

\* UserStatusSchema(**user.as_dict())
UserStatusSchema(u, user) ==
    [user_telegram_id |-> u,
     agreement_accepted |-> user.agreement_accepted,
     authenticated |-> user.authenticated,
     login_attempt_count |-> user.login_attempt_count,
     failed_request_count |-> user.failed_request_count]

\* a handler that uses the lookup of login and logout
get_user_status_WithLookup(u) ==
    IF LookupError(statusRow[u], settingsRow[u]) # NoResp
    THEN [resp |-> LookupError(statusRow[u], settingsRow[u]), body |-> NoRow]
    ELSE [resp |-> Resp(HTTP_200_OK, ""),
          body |-> UserStatusSchema(u, statusRow[u])]

\* get_user_status: the response and its body
get_user_status(u) ==
    IF statusRow[u] = NoRow
    THEN [resp |-> Resp(HTTP_404_NOT_FOUND,
                        "User doesn't exist in user_status table"),
          body |-> NoRow]
    ELSE [resp |-> Resp(HTTP_200_OK, ""),
          body |-> UserStatusSchema(u, statusRow[u])]

\* GET /user/{id}: the handler never awaits, so it is one step
GetUserStatus(m, p, h) ==
    /\ Pipeline(m, p, h).handler = "get_user_status"
    /\ LET out == get_user_status(Pipeline(m, p, h).id)
       IN http' = Exchange(m, p, h, "get_user_status", out.resp, out.body)
    /\ UNCHANGED <<statusRow, settingsRow, cookiesColl, uniqueIndex, tracking,
                   req, faults, initial, statusTable, dbSession, lastDone,
                   mock>>

\* the body of a login that is not a UserLoginBodySchema: the framework
\* answers 422 and login_user is not called
BodyRejects(m, p, h, b) ==
    /\ Pipeline(m, p, h).handler = "login_user"
    /\ ~UserLoginBodySchema(b).valid
    /\ http' = [Exchange(m, p, h, "none", Resp(422, "Unprocessable Entity"),
                         NoRow) EXCEPT !.sent = b]
    /\ UNCHANGED <<statusRow, settingsRow, cookiesColl, uniqueIndex, tracking,
                   req, faults, initial, statusTable, dbSession, lastDone,
                   mock>>

\* PATCH /user/{id}/login
PatchLogin(r, m, p, h, b) ==
    /\ Pipeline(m, p, h).handler = "login_user"
    /\ UserLoginBodySchema(b).valid
    /\ LoginStart(r, Pipeline(m, p, h).id, UserLoginBodySchema(b).cookies)
    /\ http' = [Exchange(m, p, h, "login_user", NoResp, NoRow)
                  EXCEPT !.sent = b]

\* POST /user/{id}/logout
PostLogout(r, m, p, h) ==
    /\ Pipeline(m, p, h).handler = "logout_user"
    /\ LogoutStart(r, Pipeline(m, p, h).id)
    /\ http' = Exchange(m, p, h, "logout_user", NoResp, NoRow)

\* every request arrives at the gate
Gate ==
    \/ \E rq \in Incoming : GateRejects(rq[1], rq[2], rq[3])
    \/ \E rq \in Incoming : RouterRejects(rq[1], rq[2], rq[3])
    \/ \E rq \in Incoming : Health(rq[1], rq[2], rq[3])
    \/ \E rq \in Incoming : GetUserStatus(rq[1], rq[2], rq[3])
    \/ \E rq \in Incoming, b \in Bodies : BodyRejects(rq[1], rq[2], rq[3], b)
    \/ \E rq \in Incoming, r \in Reqs, b \in Bodies :
          PatchLogin(r, rq[1], rq[2], rq[3], b)
    \/ \E rq \in Incoming, r \in Reqs : PostLogout(r, rq[1], rq[2], rq[3])

NextGate == Gate \/ Step

SpecGate == Init /\ [][NextGate]_vars
\* ================================================================ claims
Provisioned(u) == statusRow[u] # NoRow /\ settingsRow[u] # NoRow
RequestsOf(u) == {r \in Reqs : Started(r) /\ req[r].user = u}
Succeeded(r) == Done(r) /\ req[r].resp.code \in {HTTP_200_OK, HTTP_204_NO_CONTENT}
NDocs(u) == Cardinality(DocsOf(u))
\* a login that passed the lookup and the empty-cookies check
RealLogin(r) ==
    /\ req[r].kind = "login"
    /\ req[r].user_status # NoRow /\ req[r].user_settings # NoRow
    /\ req[r].cookies # EmptyCookies

\* C1: when every request for a user has completed successfully and none
\* is in flight, authenticated is true iff exactly one session document
\* exists for the user.
C1_AtRestConsistent ==
    \A u \in Users :
        (Provisioned(u) /\ \A r \in RequestsOf(u) : Succeeded(r))
            => (statusRow[u].authenticated <=> NDocs(u) = 1)

\* C2: the primary session collection holds at most one document per user
\* id in every reachable state.
C2_AtMostOneDocument == \A u \in Users : NDocs(u) <= 1

\* two logins for one user both inserted while no index existed; one
\* committed its document and the other was turned away
C2_Witness ==
    \E r1, r2 \in Reqs :
        /\ r1 # r2 /\ req[r1].user = req[r2].user
        /\ RealLogin(r1) /\ RealLogin(r2) /\ Done(r1) /\ Done(r2)
        /\ ~req[r1].sawIndex /\ ~req[r2].sawIndex
        /\ req[r1].mongoCommitted /\ ~req[r2].faulted
        /\ req[r2].exc = "OperationFailure"
        /\ NDocs(req[r1].user) = 1

\* two logins for one user that overlapped, both answered, and the only
\* requests that user has made
ConcurrentLoginPair(r1, r2) ==
    /\ r1 # r2 /\ req[r1].user = req[r2].user
    /\ RealLogin(r1) /\ RealLogin(r2) /\ Done(r1) /\ Done(r2)
    /\ ~req[r1].alone /\ ~req[r2].alone
    /\ RequestsOf(req[r1].user) = {r1, r2}

\* C3: of two concurrent logins for the same logged-out user, with no other
\* request for that user, exactly one answers 200 and the other fails.
C3_ExactlyOneLoginWins ==
    \A r1, r2 \in Reqs :
        ConcurrentLoginPair(r1, r2) =>
            \/ /\ req[r1].resp.code = HTTP_200_OK
               /\ req[r2].resp.code >= HTTP_400_BAD_REQUEST
            \/ /\ req[r2].resp.code = HTTP_200_OK
               /\ req[r1].resp.code >= HTTP_400_BAD_REQUEST

C3_Witness ==
    \E r1, r2 \in Reqs :
        /\ ConcurrentLoginPair(r1, r2)
        /\ req[r1].resp.code = HTTP_200_OK
        /\ req[r2].resp = Resp(HTTP_400_BAD_REQUEST, "User already logged in")

\* the step in which request r answers
AnswersNow(r) == req[r].resp = NoResp /\ req'[r].resp # NoResp
Answers(r, code) == AnswersNow(r) /\ req'[r].resp.code = code

\* C4: at the moment a login answers 200 the row has authenticated = true
\* and exactly one session document exists for the user, holding the
\* cookies of that request.
C4_SuccessMeansLoggedIn ==
    [][\A r \in Reqs :
          (Answers(r, HTTP_200_OK) /\ req[r].kind = "login") =>
              /\ statusRow'[req[r].user].authenticated
              /\ {d.cookies : d \in {x \in cookiesColl' :
                      x.user_telegram_id = req[r].user}} = {req[r].cookies}
              /\ Cardinality({x \in cookiesColl' :
                      x.user_telegram_id = req[r].user}) = 1]_vars
\* C5: a login for a user whose authenticated flag is already true, run
\* with no other request for that user in flight, is answered 400 'User
\* already logged in' and leaves the user's session documents as they were.
C5_LoggedInUserIsRejected ==
    [][\A r \in Reqs :
          (/\ AnswersNow(r) /\ req'[r].kind = "login" /\ req'[r].alone
           /\ req'[r].cookies # EmptyCookies
           /\ req'[r].loaded # NoRow /\ req'[r].user_settings # NoRow
           /\ req'[r].loaded.authenticated)
          => /\ req'[r].resp = Resp(HTTP_400_BAD_REQUEST,
                                    "User already logged in")
             /\ {d \in cookiesColl' : d.user_telegram_id = req'[r].user}
                    = DocsOf(req'[r].user)]_vars

\* C6: a login whose insert is rejected as a duplicate fails with 400, and
\* no step it takes from the rejection on changes a relational row.
C6_DuplicateLeavesRowsAlone ==
    [][\A r \in Reqs :
          (req'[r].exc = "DuplicateKeyError" /\ req'[r] # req[r])
          => /\ statusRow' = statusRow /\ settingsRow' = settingsRow
             /\ ~req'[r].sqlCommitted
             /\ (req'[r].pc = "done" =>
                    req'[r].resp.code = HTTP_400_BAD_REQUEST)]_vars

C6_Witness ==
    \E r \in Reqs :
        /\ Done(r) /\ req[r].exc = "DuplicateKeyError"
        /\ req[r].resp = Resp(HTTP_400_BAD_REQUEST, "User already logged in")
        /\ ~statusRow[req[r].user].authenticated

\* C7: when a document-store step of a login fails (insert, index creation
\* or commit), the login answers a failure, does not commit authenticated,
\* and no session document of that request is in the collection.
C7_StoreFailureFailsLogin ==
    \A r \in Reqs :
        (req[r].kind = "login"
            /\ req[r].exc \in {"DuplicateKeyError", "OperationFailure"})
        => /\ ~req[r].sqlCommitted
           /\ \A d \in cookiesColl : d._id # r
           /\ (Done(r) => req[r].resp.code >= HTTP_400_BAD_REQUEST)

\* the index creation of a login failed after its insert was staged, the
\* login has answered, and another login's document is in the collection
C7_Witness ==
    \E r \in Reqs :
        /\ req[r].kind = "login" /\ Done(r) /\ req[r].faulted
        /\ req[r].failedAt = "index"
        /\ req[r].resp.code = 500
        /\ cookiesColl # {}

\* C8: a document-store failure during logout does not keep the relational
\* reset from being committed.
C8_ResetDespiteStoreFailure ==
    \A r \in Reqs :
        (req[r].kind = "logout" /\ Done(r)
            /\ req[r].failedAt \in {"aenter", "delete", "tdelete", "aexit"})
        => /\ req[r].sqlCommitted
           /\ ~statusRow[req[r].user].authenticated

\* C9: a request that answers an error has written to neither store.
C9_ErrorLeavesStoresAlone ==
    \A r \in Reqs :
        (Done(r) /\ req[r].resp.code >= HTTP_400_BAD_REQUEST)
        => ~req[r].docsWritten /\ ~req[r].sqlCommitted

LoggedOutState(u) ==
    [status |-> [initial.status[u] EXCEPT !.authenticated = FALSE],
     settings |-> [marks |-> TRUE, news |-> FALSE, homeworks |-> FALSE,
                   requests |-> FALSE],
     docs |-> {}, ndocs |-> 0]

Observable(st) == [status |-> st.status, settings |-> st.settings,
                   docs |-> st.docs, ndocs |-> st.ndocs]

\* C10: the second of two consecutive logouts of a user, each run with no
\* other request for that user in flight, answers 204 like the first and
\* leaves the user's state as the first left it: authenticated = false,
\* the reset profile, no session document, the other status fields as
\* they were at the start.
C10_LogoutIdempotent ==
    [][\A r \in Reqs :
          (/\ AnswersNow(r) /\ req'[r].kind = "logout" /\ req'[r].alone
           /\ lastDone[req'[r].user].kind = "logout"
           /\ lastDone[req'[r].user].code = HTTP_204_NO_CONTENT)
          => /\ req'[r].resp = Resp(HTTP_204_NO_CONTENT, "")
             /\ lastDone'[req'[r].user].state = lastDone[req'[r].user].state
             /\ Observable(lastDone'[req'[r].user].state)
                    = LoggedOutState(req'[r].user)]_vars

\* a login, then two logouts one after the other, all answered
C10_Witness ==
    \E r1, r2 \in Reqs :
        /\ r1 < r2 /\ req[r1].user = req[r2].user
        /\ req[r1].kind = "logout" /\ req[r2].kind = "logout"
        /\ req[r1].alone /\ req[r2].alone
        /\ req[r1].resp.code = HTTP_204_NO_CONTENT
        /\ req[r2].resp.code = HTTP_204_NO_CONTENT
        /\ req[r1].loaded.authenticated /\ req[r1].docsWritten
        /\ \A q \in Reqs : (r1 < q /\ q < r2) => req[q].user # req[r1].user
        /\ lastDone[req[r1].user].kind = "logout"

\* the fixed profile a reset writes
ResetProfile == [marks |-> TRUE, news |-> FALSE, homeworks |-> FALSE,
                 requests |-> FALSE]

\* the user's state in the next state
UserStateNext(u) ==
    UserState(statusRow', settingsRow', cookiesColl', tracking', u)

\* request r is a logout that answers in this step, ran with no other
\* request for its user in flight, and found the user logged out
LogoutOfLoggedOutAnswers(r) ==
    /\ AnswersNow(r) /\ req'[r].kind = "logout" /\ req'[r].alone
    /\ req'[r].before.status # NoRow /\ req'[r].before.settings # NoRow
    /\ ~req'[r].before.status.authenticated
    /\ req'[r].before.ndocs = 0

\* C11 as stated: a logout of a user who is already logged out answers
\* success and leaves the status row, the preferences row and the document
\* store exactly as they were before the request.
C11_LogoutChangesNothing ==
    [][\A r \in Reqs :
          LogoutOfLoggedOutAnswers(r) =>
             /\ req'[r].resp = Resp(HTTP_204_NO_CONTENT, "")
             /\ UserStateNext(req'[r].user) = req'[r].before]_vars

\* C11 amended: a logout of a user who is already logged out, run alone,
\* answers 204 and leaves the status row and the session collection as they
\* were; the preferences row holds the reset profile and the user has no
\* tracking document afterwards, so nothing at all changes when the user
\* already had the reset profile and no tracking document.
C11_LogoutOfLoggedOut ==
    [][\A r \in Reqs :
          LogoutOfLoggedOutAnswers(r) =>
             LET u == req'[r].user
                 after == UserStateNext(u)
             IN /\ req'[r].resp = Resp(HTTP_204_NO_CONTENT, "")
                /\ after.status = req'[r].before.status
                /\ after.ndocs = 0
                /\ after.settings = ResetProfile
                /\ after.tracking = {}
                /\ (req'[r].before.settings = ResetProfile
                        /\ req'[r].before.tracking = {})
                    => after = req'[r].before]_vars

\* a logout of a logged-out user whose preferences were not the reset
\* profile has answered 204
C11_Witness ==
    \E r \in Reqs :
        /\ Done(r) /\ req[r].kind = "logout" /\ req[r].alone
        /\ req[r].resp.code = HTTP_204_NO_CONTENT
        /\ req[r].before.status # NoRow /\ req[r].before.settings # NoRow
        /\ ~req[r].before.status.authenticated /\ req[r].before.ndocs = 0
        /\ req[r].before.settings # ResetProfile
        /\ settingsRow[req[r].user] = ResetProfile

\* C12: after a logout that answers 204 with no other request for the user
\* in flight, whatever the user's state was before: authenticated is false,
\* the preferences are the reset profile, and the user has no session
\* document and no tracking document.
C12_LogoutResetsEverything ==
    [][\A r \in Reqs :
          (/\ AnswersNow(r) /\ req'[r].kind = "logout" /\ req'[r].alone
           /\ req'[r].resp.code = HTTP_204_NO_CONTENT)
          => LET after == UserStateNext(req'[r].user)
             IN /\ ~after.status.authenticated
                /\ after.settings = ResetProfile
                /\ after.ndocs = 0
                /\ after.tracking = {}]_vars

\* a logout has reset a user who had a session document while the flag was
\* false (left by a login whose relational commit failed)
C12_Witness ==
    \E r \in Reqs :
        /\ Done(r) /\ req[r].kind = "logout" /\ req[r].alone
        /\ req[r].resp.code = HTTP_204_NO_CONTENT
        /\ req[r].before.ndocs = 1
        /\ ~req[r].before.status.authenticated
        /\ req[r].before.tracking # {}
        /\ NDocs(req[r].user) = 0

\* C13: login and logout change no status field but authenticated:
\* agreement_accepted, login_attempt_count and failed_request_count keep
\* their initial values, and no status row appears or disappears.
C13_OnlyAuthenticatedChanges ==
    \A u \in Users :
        IF initial.status[u] = NoRow
        THEN statusRow[u] = NoRow
        ELSE /\ statusRow[u] # NoRow
             /\ statusRow[u] =
                  [initial.status[u] EXCEPT
                      !.authenticated = statusRow[u].authenticated]

\* a user has logged in and then logged out, both with success
C13_Witness ==
    \E r1, r2 \in Reqs :
        /\ r1 < r2 /\ req[r1].user = req[r2].user
        /\ req[r1].kind = "login" /\ req[r1].resp.code = HTTP_200_OK
        /\ req[r1].resp.authenticated
        /\ req[r2].kind = "logout"
        /\ req[r2].resp.code = HTTP_204_NO_CONTENT
        /\ req[r2].before.status.authenticated
        /\ ~statusRow[req[r1].user].authenticated

\* a request arrives at the gate in this step
Arrived == http'.n = http.n + 1
Protected(path) == path \notin ALLOWED_PATH_WITHOUT_AUTH
\* the request carries the credential header, whatever its value
HasCredential(headers) ==
    \E x \in headers : x[1] = LOGIN_LOGOUT_SERVICE_HEADER_NAME
CredentialOf(headers) ==
    (CHOOSE x \in headers : x[1] = LOGIN_LOGOUT_SERVICE_HEADER_NAME)[2]
ValidCredential(headers) ==
    HasCredential(headers)
        /\ CredentialOf(headers) = LOGIN_LOGOUT_SERVICE_TOKEN
StoresUnchanged ==
    /\ statusRow' = statusRow /\ settingsRow' = settingsRow
    /\ cookiesColl' = cookiesColl /\ uniqueIndex' = uniqueIndex
    /\ tracking' = tracking

\* the header is there and its value is a credential other than the secret
WrongCredential(headers) ==
    HasCredential(headers)
        /\ CredentialOf(headers) \notin {"", LOGIN_LOGOUT_SERVICE_TOKEN}

C15_GateDecidedByHeader ==
    [][(Arrived /\ Protected(http'.path))
        => IF ~HasCredential(http'.headers)
           THEN http'.resp = Resp(HTTP_401_UNAUTHORIZED, "Unauthorized")
           ELSE IF CredentialOf(http'.headers) # LOGIN_LOGOUT_SERVICE_TOKEN
           THEN http'.resp = Resp(HTTP_403_FORBIDDEN, "Forbidden")
           ELSE http'.resp.code
                    \notin {HTTP_401_UNAUTHORIZED, HTTP_403_FORBIDDEN}]_vars

C17_AllowListBypassesGate ==
    [][(Arrived /\ http'.path \in ALLOWED_PATH_WITHOUT_AUTH)
        => /\ http'.resp.code
                \notin {HTTP_401_UNAUTHORIZED, HTTP_403_FORBIDDEN}
           /\ http'.method = "GET"
                => /\ http'.handler \in {"health", "docs"}
                   /\ http'.resp.code = HTTP_200_OK]_vars

\* /health was answered 200 to a request with a wrong token
C17_Witness ==
    /\ http.path = <<"health">> /\ http.method = "GET"
    /\ HasCredential(http.headers) /\ ~ValidCredential(http.headers)
    /\ http.handler = "health" /\ http.resp.code = HTTP_200_OK

\* C18: the lookup of login and logout has three outcomes, decided in this
\* order: no status row gives 404 'status', whether or not the settings row
\* exists; a status row without a settings row gives 404 'settings'; both
\* rows are returned when both exist.  A 404 ends the request with no row
\* and no document created, changed or deleted.
C18_LookupOutcomes ==
    [][\A r \in Reqs :
          (~Started(r) /\ req'[r].pc # "idle")
          => LET u == req'[r].user
                 rec == req'[r]
             IN /\ statusRow[u] = NoRow
                    => rec.resp = Resp(HTTP_404_NOT_FOUND,
                                    "User doesn't exist in user_status table")
                /\ (statusRow[u] # NoRow /\ settingsRow[u] = NoRow)
                    => rec.resp = Resp(HTTP_404_NOT_FOUND,
                                  "User doesn't exist in user_settings table")
                /\ (statusRow[u] # NoRow /\ settingsRow[u] # NoRow)
                    => /\ rec.resp.code # HTTP_404_NOT_FOUND
                       /\ rec.user_status = statusRow[u]
                       /\ rec.user_settings = settingsRow[u]
                /\ rec.resp.code = HTTP_404_NOT_FOUND
                    => rec.pc = "done" /\ StoresUnchanged]_vars

\* a request for a user with neither row was answered 404 'status'
C18_Witness ==
    \E r \in Reqs :
        /\ Done(r)
        /\ req[r].before.status = NoRow /\ req[r].before.settings = NoRow
        /\ req[r].resp = Resp(HTTP_404_NOT_FOUND,
                              "User doesn't exist in user_status table")
        /\ statusRow[req[r].user] = NoRow /\ settingsRow[req[r].user] = NoRow

\* GET /user/{id} for user u arrives with the valid token in this step
GetArrives(u) ==
    /\ Arrived /\ http'.method = "GET" /\ http'.path = <<"user", IdText[u]>>
    /\ ValidCredential(http'.headers)

\* the fields of the status record of user u as the table holds them
StatusFields(u) ==
    [user_telegram_id |-> u,
     agreement_accepted |-> statusRow[u].agreement_accepted,
     authenticated |-> statusRow[u].authenticated,
     login_attempt_count |-> statusRow[u].login_attempt_count,
     failed_request_count |-> statusRow[u].failed_request_count]

\* C19 as stated: GET /user/{id} with a valid token answers 404 whenever
\* the status row or the settings row of the id is missing, and 200 with
\* the status fields only when both rows exist.
C19_GetNeedsBothRows ==
    [][\A u \in Users :
          GetArrives(u) =>
             IF statusRow[u] = NoRow \/ settingsRow[u] = NoRow
             THEN http'.resp.code = HTTP_404_NOT_FOUND
             ELSE /\ http'.resp.code = HTTP_200_OK
                  /\ http'.body = StatusFields(u)]_vars

\* C19 amended: GET /user/{id} with a valid token answers 404 whenever the
\* status row of the id is missing, and 200 with the status fields whenever
\* the status row exists, whether or not the settings row exists.
C19_GetNeedsStatusRow ==
    [][\A u \in Users :
          GetArrives(u) =>
             IF statusRow[u] = NoRow
             THEN http'.resp = Resp(HTTP_404_NOT_FOUND,
                                    "User doesn't exist in user_status table")
             ELSE /\ http'.resp.code = HTTP_200_OK
                  /\ http'.body = StatusFields(u)]_vars

\* a GET for a user with a status row and no settings row was answered 200
C19_Witness ==
    \E u \in Users :
        /\ http.method = "GET" /\ http.path = <<"user", IdText[u]>>
        /\ http.handler = "get_user_status"
        /\ http.resp.code = HTTP_200_OK
        /\ statusRow[u] # NoRow /\ settingsRow[u] = NoRow

\* C20: GET /user/{id} of an existing user is a pure read: it changes no
\* row, no document and no request, its fields are those of the stored
\* row, and a GET that follows a GET of the same user with no write in
\* between returns the same fields.
C20_GetIsPureRead ==
    [][\A u \in Users :
          (GetArrives(u) /\ statusRow[u] # NoRow)
          => /\ StoresUnchanged /\ req' = req
             /\ http'.resp.code = HTTP_200_OK
             /\ http'.body = StatusFields(u)
             /\ (/\ http.handler = "get_user_status"
                 /\ http.path = http'.path
                 /\ http.resp.code = HTTP_200_OK
                 /\ http.body = StatusFields(u))
                => http'.body = http.body]_vars

\* a GET after a login of the user returned the stored row, authenticated
\* included
C20_Witness ==
    \E u \in Users :
        /\ http.n = 2
        /\ http.method = "GET" /\ http.path = <<"user", IdText[u]>>
        /\ http.resp.code = HTTP_200_OK
        /\ http.body = StatusFields(u)
        /\ http.body.authenticated

\* a login for user u with an empty cookie mapping arrives in this step
EmptyLoginArrives(r, u) ==
    /\ ~Started(r) /\ req'[r].pc # "idle"
    /\ req'[r].kind = "login" /\ req'[r].user = u
    /\ req'[r].cookies = EmptyCookies

\* C21: a login with an empty cookie mapping always answers 400 'Cookies
\* is empty', and it does so before any store is touched: the request has
\* read no row of the relational store, and no row and no document is
\* changed.
C21_EmptyCookiesBeforeStores ==
    [][\A r \in Reqs, u \in Users :
          EmptyLoginArrives(r, u)
          => /\ req'[r].pc = "done"
             /\ req'[r].resp = Resp(HTTP_400_BAD_REQUEST, "Cookies is empty")
             /\ req'[r].user_status = NoRow /\ req'[r].user_settings = NoRow
             /\ StoresUnchanged]_vars

\* C22: every 200 response of a login carries authenticated = true, under
\* every interleaving with the other requests for the same user.
C22_LoginBodyAuthenticated ==
    \A r \in Reqs :
        (Done(r) /\ req[r].kind = "login" /\ req[r].resp.code = HTTP_200_OK)
        => req[r].resp.authenticated

\* user u has not repeated its login
InAndOut(u) == Cardinality(Sent(u, "login")) <= 1

\* C23: when every user of a set of provisioned, logged-out users sends a
\* login and then a logout, and the requests of different users interleave
\* in any order, every request succeeds, and once all are answered no
\* session document is left and every status row has authenticated = false.
C23_EachUserInAndOut ==
    (\A u \in Users : InAndOut(u))
    => /\ \A r \in EachReqs : Done(r) => Succeeded(r)
       /\ (\A r \in EachReqs : Done(r))
           => /\ cookiesColl = {}
              /\ \A u \in Users : ~statusRow[u].authenticated

\* every user's login was answered 200 and its logout 204, a logout
\* arrived while another user's request was in flight, and no document is
\* left
C23_Witness ==
    /\ \A u \in Users :
          /\ InAndOut(u)
          /\ \E l \in Sent(u, "login"), o \in Sent(u, "logout") :
              /\ Done(l) /\ req[l].resp.code = HTTP_200_OK
              /\ Done(o) /\ req[o].resp.code = HTTP_204_NO_CONTENT
    /\ \E r \in EachReqs :
          /\ req[r].kind = "logout" /\ req[r].before.ndocs = 1
          /\ \E q \in EachReqs : q > r /\ req[q].kind = "login"
    /\ cookiesColl = {}

\* request r takes a step
Moves(r) == req'[r].pc # req[r].pc

GoneDocs(u) == DocsOf(u) \ {d \in cookiesColl' : d.user_telegram_id = u}
GoneTracking(u) ==
    {c \in TrackingCollections : u \in tracking[c] /\ u \notin tracking'[c]}

\* C25: the deletions of a logout in the session collection and in the four
\* tracking collections take effect atomically: a step in which any
\* document of a user disappears is the commit of a logout's transaction,
\* and in that step the session document the logout matched and the user's
\* document in every tracking collection disappear together; a logout one
\* of whose deletions failed removes nothing.
C25_DeletionsAtomic ==
    [][\A u \in Users :
          (GoneDocs(u) # {} \/ GoneTracking(u) # {})
          => \E r \in Reqs :
                /\ req[r].kind = "logout" /\ req[r].user = u
                /\ req[r].pc = "aexit" /\ req[r].exc = "none"
                /\ req'[r].mongoCommitted /\ req'[r].failedAt = "none"
                /\ GoneDocs(u) = req[r].txn.del \cap cookiesColl
                /\ GoneTracking(u) =
                      {c \in TrackingCollections : u \in tracking[c]}]_vars

\* a logout removed the session document and the tracking documents of its
\* user, and the logout of another user, one of whose tracking deletions
\* failed, left that user's documents where they were
C25_Witness ==
    \E r, q \in Reqs :
        /\ Done(r) /\ req[r].kind = "logout" /\ req[r].mongoCommitted
        /\ req[r].before.ndocs = 1 /\ req[r].before.tracking # {}
        /\ DocsOf(req[r].user) = {}
        /\ \A c \in TrackingCollections : req[r].user \notin tracking[c]
        /\ Done(q) /\ req[q].kind = "logout" /\ req[q].failedAt = "tdelete"
        /\ req[q].user # req[r].user
        /\ req[q].before.tracking # {}
        /\ \A c \in req[q].before.tracking : req[q].user \in tracking[c]

\* a commit is attempted in this step
Commits == dbSession'.commits = dbSession.commits + 1
Negative(row) ==
    row.login_attempt_count < 0 \/ row.failed_request_count < 0

\* C26: a write that would set login_attempt_count or failed_request_count
\* below zero fails at commit and is not persisted, neither as it is nor
\* clamped: the table and the rows are as before; so both counters are
\* >= 0 in every row of every reachable state.
C26_NegativeCounterRejected ==
    [][/\ (Commits /\ Negative(dbSession'.row))
            => /\ dbSession'.error # "none"
               /\ statusTable' = statusTable /\ statusRow' = statusRow
       /\ \A t \in statusTable' :
            t.login_attempt_count >= 0 /\ t.failed_request_count >= 0
       /\ \A u \in Users :
            statusRow'[u] # NoRow
            => /\ statusRow'[u].login_attempt_count >= 0
               /\ statusRow'[u].failed_request_count >= 0]_vars

\* the commit of a row with a negative counter for a user who has no row
\* was refused with IntegrityError, and the user still has no row
C26_Witness ==
    /\ dbSession.error = "IntegrityError"
    /\ dbSession.row # NoRow
    /\ Negative(dbSession.row)
    /\ statusRow[dbSession.row.user_telegram_id] = NoRow
    /\ \A t \in statusTable :
          t.user_telegram_id # dbSession.row.user_telegram_id

\* the rows of the table with the user id of the row
SameUser(row, table) ==
    {t \in table : t.user_telegram_id = row.user_telegram_id}

\* C27: user_telegram_id is unique in the status table in every reachable
\* state: the commit of a second row with a user_telegram_id the table
\* already holds fails and leaves the table with the single original row.
C27_UserIdUnique ==
    [][/\ \A t1, t2 \in statusTable' :
            t1.user_telegram_id = t2.user_telegram_id => t1 = t2
       /\ (Commits /\ SameUser(dbSession'.row, statusTable) # {})
            => /\ dbSession'.error # "none"
               /\ statusTable' = statusTable /\ statusRow' = statusRow
               /\ Cardinality(SameUser(dbSession'.row, statusTable')) = 1
               /\ dbSession'.row \notin statusTable']_vars

\* a row with counters the table accepts, for a user who has a row, was
\* refused with IntegrityError
C27_Witness ==
    /\ dbSession.error = "IntegrityError"
    /\ dbSession.row # NoRow
    /\ ~Negative(dbSession.row)
    /\ Cardinality(SameUser(dbSession.row, statusTable)) = 1
    /\ dbSession.row \notin statusTable

\* C28: in every login the relational write authenticated = true is
\* committed strictly after the insert of the session document has been
\* committed, and in every logout the relational reset is committed
\* strictly after the deletions have been committed: the step that commits
\* the rows of a request comes after the commit of its transaction in the
\* document store and changes no document, and no request changes a row
\* before that commit.
C28_DocumentsBeforeRows ==
    [][\A r \in Reqs :
          /\ (req'[r].sqlCommitted /\ ~req[r].sqlCommitted)
                => /\ req[r].mongoCommitted
                   /\ req[r].transaction = "committed"
                   /\ cookiesColl' = cookiesColl /\ tracking' = tracking
          /\ (Moves(r) /\ ~req[r].mongoCommitted)
                => statusRow' = statusRow /\ settingsRow' = settingsRow
          /\ (req'[r].mongoCommitted /\ ~req[r].mongoCommitted)
                => ~req'[r].sqlCommitted]_vars

\* a login and a logout have each committed their documents and then their
\* rows
C28_Witness ==
    \E l, o \in Reqs :
        /\ req[l].kind = "login" /\ req[o].kind = "logout"
        /\ Done(l) /\ req[l].docsWritten /\ req[l].sqlCommitted
        /\ Done(o) /\ req[o].docsWritten /\ req[o].sqlCommitted

\* C29: from any state in which the rows of user u exist and no request
\* for u is in flight, the states failed or interleaved requests leave
\* included, a logout that answers 204 brings u to LoggedOut
\* (authenticated = false, no session document, the reset profile), and a
\* login with cookies that follows it answers 200 and leaves u logged in
\* with those cookies.
C29_LogoutThenLoginRecovers ==
    [][\A r \in Reqs :
          LET u == req'[r].user
              after == UserStateNext(u)
          IN /\ (/\ AnswersNow(r) /\ req'[r].kind = "logout" /\ req'[r].alone
                 /\ req'[r].resp.code = HTTP_204_NO_CONTENT)
                => /\ ~after.status.authenticated
                   /\ after.ndocs = 0
                   /\ after.settings = ResetProfile
             /\ (/\ AnswersNow(r) /\ req'[r].kind = "login" /\ req'[r].alone
                 /\ req'[r].cookies # EmptyCookies
                 /\ lastDone[u].kind = "logout"
                 /\ lastDone[u].code = HTTP_204_NO_CONTENT)
                => /\ req'[r].resp.code = HTTP_200_OK
                   /\ req'[r].resp.authenticated
                   /\ after.status.authenticated
                   /\ after.ndocs = 1
                   /\ after.docs = {req'[r].cookies}]_vars

\* user u, with authenticated = true and no document, was logged out and
\* then logged in again
C29_Witness ==
    \E o, l \in Reqs :
        /\ o < l /\ req[o].user = req[l].user
        /\ req[o].kind = "logout" /\ req[o].alone /\ Done(o)
        /\ req[o].resp.code = HTTP_204_NO_CONTENT
        /\ req[o].before.status.authenticated /\ req[o].before.ndocs = 0
        /\ req[l].kind = "login" /\ req[l].alone /\ Done(l)
        /\ req[l].resp.code = HTTP_200_OK
        /\ req[l].before.ndocs = 0 /\ ~req[l].before.status.authenticated
        /\ NDocs(req[l].user) = 1
        /\ lastDone[req[l].user].kind = "login"

\* the same for a user with a session document under authenticated = false
C29_WitnessStale ==
    \E o, l \in Reqs :
        /\ o < l /\ req[o].user = req[l].user
        /\ req[o].kind = "logout" /\ req[o].alone /\ Done(o)
        /\ req[o].resp.code = HTTP_204_NO_CONTENT
        /\ ~req[o].before.status.authenticated /\ req[o].before.ndocs = 1
        /\ req[l].kind = "login" /\ req[l].alone /\ Done(l)
        /\ req[l].resp.code = HTTP_200_OK
        /\ lastDone[req[l].user].kind = "login"

\* C30: session documents are created only by the insert of a login and
\* removed only by the delete of a logout, and nothing modifies a document
\* that exists: a document that appears is the one a login's transaction
\* inserted, with that login's user id and cookies; a document that
\* disappears is removed by the commit of a logout of its user; and every
\* document that is there before and after a step is the same before and
\* after, so its cookies are those of the login that inserted it.
C30_DocumentsNeverModified ==
    [][/\ \A d \in cookiesColl' \ cookiesColl :
            /\ req[d._id].kind = "login" /\ req[d._id].pc = "aexit"
            /\ req'[d._id].mongoCommitted
            /\ d \in req[d._id].txn.ins
            /\ \A e \in cookiesColl : e._id # d._id
       /\ \A d \in cookiesColl \ cookiesColl' :
            /\ \E o \in Reqs :
                  /\ req[o].kind = "logout" /\ req[o].pc = "aexit"
                  /\ req[o].user = d.user_telegram_id
                  /\ req'[o].mongoCommitted
            /\ \A e \in cookiesColl' : e._id # d._id
       /\ \A d \in cookiesColl' :
            /\ d.cookies = req'[d._id].cookies
            /\ d.user_telegram_id = req'[d._id].user]_vars

\* a user's document holds the cookies of the login that inserted it after
\* a later login of the user with other cookies was answered 400
C30_Witness ==
    \E d \in cookiesColl, q \in Reqs :
        /\ req[q].kind = "login" /\ req[q].user = d.user_telegram_id
        /\ q > d._id /\ Done(q)
        /\ req[q].resp.code = HTTP_400_BAD_REQUEST
        /\ req[q].cookies # EmptyCookies /\ req[q].cookies # d.cookies
        /\ d.cookies = req[d._id].cookies

\* everything the stores hold for user v is the same after the step
UserUntouched(v) ==
    /\ statusRow'[v] = statusRow[v] /\ settingsRow'[v] = settingsRow[v]
    /\ {d \in cookiesColl' : d.user_telegram_id = v} = DocsOf(v)
    /\ \A c \in TrackingCollections : (v \in tracking'[c]) = (v \in tracking[c])

\* C31: a status, login or logout request for user u never changes the
\* status row, the preferences row, the session document or the tracking
\* documents of another user v, however the requests of different users
\* interleave: every step of a request leaves every other user untouched.
C31_OtherUsersUntouched ==
    [][/\ \A r \in Reqs :
            Moves(r) => \A v \in Users \ {req'[r].user} : UserUntouched(v)
       /\ \A u \in Users :
            GetArrives(u) => \A v \in Users : UserUntouched(v)]_vars

\* a logout of one user was answered 204 after the login of another user,
\* whose document and flag are still there
C31_Witness ==
    \E l, o \in Reqs :
        /\ req[l].kind = "login" /\ req[o].kind = "logout"
        /\ req[l].user # req[o].user /\ l < o
        /\ Done(l) /\ req[l].resp.code = HTTP_200_OK
        /\ Done(o) /\ req[o].resp.code = HTTP_204_NO_CONTENT
        /\ req[o].before.tracking # {}
        /\ NDocs(req[l].user) = 1 /\ statusRow[req[l].user].authenticated

\* the user ids that have a row in the table
IdsIn(table) == {u \in DOMAIN table : table[u] # NoRow}

\* C32: no request creates or deletes a row of the status table or of the
\* preferences table, and none changes a row's user_telegram_id: the set
\* of user ids in each table is the same before and after every step of
\* every request, successful or failed.
C32_RowsOnlyProvisioned ==
    [][/\ IdsIn(statusRow') = IdsIn(statusRow)
       /\ IdsIn(settingsRow') = IdsIn(settingsRow)
       /\ {t.user_telegram_id : t \in statusTable'}
             = {t.user_telegram_id : t \in statusTable}
       /\ IdsIn(statusRow') = {t.user_telegram_id : t \in statusTable'}]_vars

\* a login of a user without a status row was answered 404, a logout of a
\* provisioned user was answered 204, and the tables hold the rows they
\* held at the start
C32_Witness ==
    \E q, o \in Reqs :
        /\ Done(q) /\ req[q].kind = "login"
        /\ req[q].resp.code = HTTP_404_NOT_FOUND
        /\ statusRow[req[q].user] = NoRow
        /\ Done(o) /\ req[o].kind = "logout" /\ req[o].sqlCommitted
        /\ req[o].resp.code = HTTP_204_NO_CONTENT
        /\ IdsIn(statusRow) = IdsIn(initial.status)
        /\ IdsIn(settingsRow) = IdsIn(initial.settings)

\* o1 and o2 are logouts of one provisioned user that overlapped, and every
\* other request for that user ran alone and has answered
ConcurrentLogoutPair(o1, o2) ==
    /\ o1 # o2 /\ req[o1].user = req[o2].user
    /\ req[o1].kind = "logout" /\ req[o2].kind = "logout"
    /\ Done(o1) /\ Done(o2)
    /\ ~req[o1].alone /\ ~req[o2].alone
    /\ Provisioned(req[o1].user)
    /\ \A q \in RequestsOf(req[o1].user) \ {o1, o2} :
          Done(q) /\ req[q].alone

\* C33: when the second of two concurrent logouts of one existing user
\* answers, both have answered 204 and the user is logged out:
\* authenticated = false, the reset profile, no session document.
C33_ConcurrentLogoutsBothSucceed ==
    [][\A o1, o2 \in Reqs :
          (AnswersNow(o2) /\ ConcurrentLogoutPair(o1, o2)')
          => /\ req'[o1].resp.code = HTTP_204_NO_CONTENT
             /\ req'[o2].resp.code = HTTP_204_NO_CONTENT
             /\ ~statusRow'[req'[o1].user].authenticated
             /\ settingsRow'[req'[o1].user] = ResetProfile
             /\ {d \in cookiesColl' : d.user_telegram_id = req'[o1].user}
                   = {}]_vars

\* request r has left the MongoContextManager scope it entered
LeftScope(r) ==
    req[r].transaction # "none" /\ req[r].pc \in {"sql", "done"}

\* C34: a request that has left its MongoContextManager scope, by whatever
\* path, has its transaction committed (body completed) or aborted (an
\* exception), and its session ended and its client closed.
C34_ScopeReleasesOnEveryPath ==
    \A r \in Reqs :
        LeftScope(r)
        => /\ req[r].transaction =
                 (IF req[r].mongoCommitted THEN "committed" ELSE "aborted")
           /\ req[r].session = "closed"

\* C35: in the step in which a login answers 400 'User already logged in',
\* the status row of its user has authenticated = true.
C35_ConflictMeansAuthenticated ==
    [][\A r \in Reqs :
          (/\ AnswersNow(r)
           /\ req'[r].resp
                = Resp(HTTP_400_BAD_REQUEST, "User already logged in"))
          => /\ statusRow[req'[r].user].authenticated
             /\ statusRow'[req'[r].user].authenticated]_vars

\* a login request passes the gate in this step
LoginPassesGate ==
    /\ Arrived /\ http'.method = "PATCH"
    /\ Len(http'.path) = 3 /\ http'.path[1] = "user"
    /\ http'.path[3] = "login"
    /\ ValidCredential(http'.headers)

\* the answer of the first check of a login for user u that fails, NoResp
\* when none of the checks made before the document store is opened fails
FirstFailingCheck(u, cookies) ==
    IF statusRow[u] = NoRow
    THEN Resp(HTTP_404_NOT_FOUND, "User doesn't exist in user_status table")
    ELSE IF settingsRow[u] = NoRow
    THEN Resp(HTTP_404_NOT_FOUND, "User doesn't exist in user_settings table")
    ELSE IF cookies = EmptyCookies
    THEN Resp(HTTP_400_BAD_REQUEST, "Cookies is empty")
    ELSE NoResp

\* C36: a login that passed the gate is answered by the first check that
\* fails, in the order path and body validation (422), status lookup (404),
\* settings lookup (404), empty cookies (400), document insert (400 on a
\* duplicate), relational commit, and no later step runs: a 422 reaches no
\* handler, a login stopped by a lookup or by empty cookies never opens the
\* document store, the relational commit comes only after the document
\* commit, and a login answered 4xx has written to neither store.
C36_LoginCheckOrder ==
    [][/\ LoginPassesGate
          => LET id == PositiveInt(http'.path[2])
                 body == UserLoginBodySchema(http'.sent)
             IN IF id = 0 \/ ~body.valid
                THEN /\ http'.resp.code = 422
                     /\ req' = req /\ StoresUnchanged
                ELSE \E r \in Reqs :
                        /\ req[r].pc = "idle" /\ req'[r].kind = "login"
                        /\ req'[r].user = id
                        /\ req'[r].resp = FirstFailingCheck(id, body.cookies)
                        /\ req'[r].pc = IF req'[r].resp = NoResp
                                        THEN "aenter" ELSE "done"
                        /\ StoresUnchanged
       /\ \A r \in Reqs :
             /\ (req'[r].kind = "login" /\ req'[r].sqlCommitted)
                   => req'[r].mongoCommitted
             /\ (/\ req'[r].kind = "login" /\ req'[r].pc = "done"
                 /\ req'[r].resp.code \in 400..499)
                   => /\ ~req'[r].mongoCommitted /\ ~req'[r].sqlCommitted
                      /\ \A d \in cookiesColl' : d._id # r
                      /\ AnswersNow(r) => StoresUnchanged]_vars

\* a login with empty cookies for a user without a status row was answered
\* 404, and the last request, a login of a provisioned user whose body has
\* no cookies field, was answered 422
C36_Witness ==
    \E r \in Reqs :
        /\ req[r].kind = "login" /\ Done(r)
        /\ req[r].cookies = EmptyCookies /\ req[r].user_status = NoRow
        /\ req[r].resp.code = HTTP_404_NOT_FOUND
        /\ http.n = 2 /\ http.sent = WrongBody /\ http.resp.code = 422
        /\ http.path = <<"user", IdText[1], "login">>

\* C37: a step of a login changes nothing but the authenticated column of
\* its user's status row and the session collection: the preferences rows
\* and the four tracking collections are as they were.
C37_LoginWritesFlagAndDocument ==
    [][\A r \in Reqs :
          (Moves(r) /\ req'[r].kind = "login")
          => /\ settingsRow' = settingsRow
             /\ tracking' = tracking
             /\ \A u \in Users :
                   \/ statusRow'[u] = statusRow[u]
                   \/ /\ u = req'[r].user /\ statusRow[u] # NoRow
                      /\ statusRow'[u] =
                           [statusRow[u] EXCEPT !.authenticated = TRUE]]_vars

\* a login has answered 200 for a user whose preferences are not the reset
\* profile and who has tracking documents: the flag is set, the document is
\* there, the preferences and the tracking documents are as at the start
C37_Witness ==
    \E r \in Reqs :
        /\ req[r].kind = "login" /\ Done(r)
        /\ req[r].resp.code = HTTP_200_OK /\ req[r].sqlCommitted
        /\ statusRow[req[r].user].authenticated
        /\ ~req[r].before.status.authenticated
        /\ \E d \in cookiesColl : d._id = r
        /\ settingsRow[req[r].user] # ResetProfile
        /\ settingsRow[req[r].user] = initial.settings[req[r].user]
        /\ tracking = InitTracking
        /\ req[r].before.tracking # {}

\* C38: from every starting state, a login through the test double and a
\* login through make_user_authorized, each run alone, end with the same
\* outcome (success or DuplicateKeyError), the same authenticated flag and
\* the same session documents.
C38_MockEquivalent ==
    \A r \in Reqs :
        (Done(r) /\ mock.pc = "done")
        => /\ req[r].exc = mock.exc
           /\ statusRow[1].authenticated = mock.status.authenticated
           /\ cookiesColl = mock.docs

\* the same, from the starting states in which the flag agrees with the
\* documents or no document exists
C38_EquivalentWithoutStaleDocument ==
    \A r \in Reqs :
        (/\ Done(r) /\ mock.pc = "done"
         /\ (req[r].before.ndocs = 0 \/ req[r].before.status.authenticated))
        => /\ req[r].exc = mock.exc
           /\ statusRow[1].authenticated = mock.status.authenticated
           /\ cookiesColl = mock.docs

====
